---- MODULE Spec2Model ----
(***************************************************************************)
(* pipstrap.py: bootstrap of a pinned, hash-checked pip.                   *)
(*                                                                         *)
(* Strings are sequences of tokens; "/" is always a token of its own, so   *)
(* that rstrip('/'), split('/') and URL concatenation act on them as they  *)
(* do on the characters.  Bytes of an archive are elements of Byte.        *)
(***************************************************************************)
EXTENDS Integers, Sequences, FiniteSets, TLC

(* ---------------------------- bounds ----------------------------------- *)
\* longest response body the model's servers send, in bytes
MaxBody == 2
\* most trailing '/' the model appends to a PIPSTRAP_MIRRORS value
MaxSlashes == 2

Byte == {0, 1}

(* ------------------------ module constants ----------------------------- *)
PIP_VERSION == <<"9", ".", "0", ".", "1">>

DEFAULT_INDEX_BASE == <<"https:", "/", "/", "pypi.python.org">>

maybe_argparse(old_python) ==
    IF old_python
    THEN << [path |-> <<"18", "/", "dd", "/",
                        "e617cfc3f6210ae183374cd9f6a26b20514bbb5a792af97949c5aacddf0f",
                        "/", "argparse-1.4.0.tar.gz">>,
             digest |-> "62b089a55be1d8949cd2bc7e0df0bddb9e028faefc8c32038cc84862aefdd6e4"] >>
    ELSE << >>

PACKAGES(old_python) ==
    maybe_argparse(old_python) \o
    << [path |-> <<"/", "11", "/", "b6", "/",
                   "abcb525026a4be042b486df43905d6893fb04f05aac21c32c638e939e447",
                   "/", "pip-9.0.1.tar.gz">>,
        digest |-> "09f243e1a7b461f654c26a725fa373211bb7ff17a9300058b205c61658ca940d"],
       [path |-> <<"69", "/", "65", "/",
                   "4c544cde88d4d876cdf5cbc5f3f15d02646477756d89547e9a7ecd6afa76",
                   "/", "setuptools-20.2.2.tar.gz">>,
        digest |-> "24fcfc15364a9fe09a220f37d2dcedc849795e3de3e4b393ee988e66a9cbd85a"],
       [path |-> <<"c9", "/", "1d", "/",
                   "bd19e691fd4cfe908c76c429fe6e4436c9e83583c4414b54f6c85471954a",
                   "/", "wheel-0.29.0.tar.gz">>,
        digest |-> "1ebb8ad7e26b448e9caa4773d2357849bf80ff9e313964bcaf79cbf0201a1648"] >>

MIRRORS ==
    << <<"https:", "/", "/", "pypi.tuna.tsinghua.edu.cn">>,
       <<"https:", "/", "/", "pypi.doubanio.com">>,
       <<"https:", "/", "/", "mirrors.ustc.edu.cn", "/", "pypi", "/", "web">> >>

\* chunk size handed to response.read
CHUNK_SIZE == 4096

(* --------------------------- string helpers ---------------------------- *)
\* str.rstrip('/')
RECURSIVE rstrip_slash(_)
rstrip_slash(s) ==
    IF s # << >> /\ s[Len(s)] = "/"
    THEN rstrip_slash(SubSeq(s, 1, Len(s) - 1))
    ELSE s

\* urlparse(url).scheme, for the schemes the model's URLs use
url_scheme(url) ==
    IF Len(url) >= 3 /\ url[1] \in {"https:", "http:"} /\ url[2] = "/" /\ url[3] = "/"
    THEN SubSeq(url, 1, 1)
    ELSE << >>

\* parsed_url.path.split('/')[-1]
last_segment(url) ==
    IF url = << >> \/ url[Len(url)] = "/" THEN << >> ELSE <<url[Len(url)]>>

\* os.path.join(temp, name)
join(dir, name) == dir \o <<"/">> \o name

(* ------------------------------ sha256 --------------------------------- *)
\* The archives whose SHA-256 is pinned in PACKAGES, within the model's bytes.
GenuineArchive ==
    [d \in {"62b089a55be1d8949cd2bc7e0df0bddb9e028faefc8c32038cc84862aefdd6e4",
            "09f243e1a7b461f654c26a725fa373211bb7ff17a9300058b205c61658ca940d",
            "24fcfc15364a9fe09a220f37d2dcedc849795e3de3e4b393ee988e66a9cbd85a",
            "1ebb8ad7e26b448e9caa4773d2357849bf80ff9e313964bcaf79cbf0201a1648"} |->
        CASE d = "62b089a55be1d8949cd2bc7e0df0bddb9e028faefc8c32038cc84862aefdd6e4" -> <<1, 0>>
          [] d = "09f243e1a7b461f654c26a725fa373211bb7ff17a9300058b205c61658ca940d" -> <<0>>
          [] d = "24fcfc15364a9fe09a220f37d2dcedc849795e3de3e4b393ee988e66a9cbd85a" -> <<1>>
          [] d = "1ebb8ad7e26b448e9caa4773d2357849bf80ff9e313964bcaf79cbf0201a1648" -> <<0, 1>>]

\* sha256().update(...)...hexdigest(): a collision-free function of all the
\* bytes fed to the hash state, in order.
hexdigest(bytes) ==
    IF \E d \in DOMAIN GenuineArchive : GenuineArchive[d] = bytes
    THEN CHOOSE d \in DOMAIN GenuineArchive : GenuineArchive[d] = bytes
    ELSE ToString(bytes)

(* ------------------- distutils.version.StrictVersion ------------------- *)
NumVal ==
    [t \in {"0", "1", "2", "5", "6", "8", "9", "10", "18"} |->
        CASE t = "0" -> 0 [] t = "1" -> 1 [] t = "2" -> 2 [] t = "5" -> 5
          [] t = "6" -> 6 [] t = "8" -> 8 [] t = "9" -> 9 [] t = "10" -> 10
          [] t = "18" -> 18]

IsNum(t) == t \in DOMAIN NumVal

IsPreTag(t) == t \in {"a", "b"}

NoVersion == [ok |-> FALSE, version |-> <<0, 0, 0>>, prerelease |-> << >>]

\* StrictVersion(s): the pattern  N.N[.N][{a|b}N]  and nothing else; ok = FALSE
\* stands for the ValueError of a string the pattern rejects.
StrictVersion(s) ==
    LET two   == Len(s) >= 3 /\ IsNum(s[1]) /\ s[2] = "." /\ IsNum(s[3])
        three == two /\ Len(s) >= 5 /\ s[4] = "." /\ IsNum(s[5])
        pre(i) == Len(s) = i + 1 /\ IsPreTag(s[i]) /\ IsNum(s[i + 1])
    IN  IF three /\ Len(s) = 5
        THEN [ok |-> TRUE, version |-> <<NumVal[s[1]], NumVal[s[3]], NumVal[s[5]]>>,
              prerelease |-> << >>]
        ELSE IF three /\ pre(6)
        THEN [ok |-> TRUE, version |-> <<NumVal[s[1]], NumVal[s[3]], NumVal[s[5]]>>,
              prerelease |-> <<s[6], NumVal[s[7]]>>]
        ELSE IF two /\ Len(s) = 3
        THEN [ok |-> TRUE, version |-> <<NumVal[s[1]], NumVal[s[3]], 0>>,
              prerelease |-> << >>]
        ELSE IF two /\ pre(4)
        THEN [ok |-> TRUE, version |-> <<NumVal[s[1]], NumVal[s[3]], 0>>,
              prerelease |-> <<s[4], NumVal[s[5]]>>]
        ELSE NoVersion

\* a number below 100 as decimal text: its first digit, and whether it has two
FirstDigit(n) == IF n < 10 THEN n ELSE n \div 10

\* the components compared as text, so that '10' sorts before '9'
text_less(a, b) ==
    IF FirstDigit(a) # FirstDigit(b) THEN FirstDigit(a) < FirstDigit(b)
    ELSE IF (a < 10) # (b < 10) THEN a < 10
    ELSE a < b

tuple_cmp_as_text(x, y) ==
    IF x[1] # y[1] THEN (IF text_less(x[1], y[1]) THEN -1 ELSE 1)
    ELSE IF x[2] # y[2] THEN (IF text_less(x[2], y[2]) THEN -1 ELSE 1)
    ELSE IF x[3] # y[3] THEN (IF text_less(x[3], y[3]) THEN -1 ELSE 1)
    ELSE 0

\* cmp() of two (major, minor, patch) tuples
tuple_cmp(x, y) ==
    IF x[1] # y[1] THEN (IF x[1] < y[1] THEN -1 ELSE 1)
    ELSE IF x[2] # y[2] THEN (IF x[2] < y[2] THEN -1 ELSE 1)
    ELSE IF x[3] # y[3] THEN (IF x[3] < y[3] THEN -1 ELSE 1)
    ELSE 0

\* cmp() of two prerelease tuples (tag, number)
pre_cmp(p, q) ==
    IF p[1] # q[1] THEN (IF p[1] = "a" THEN -1 ELSE 1)
    ELSE IF p[2] # q[2] THEN (IF p[2] < q[2] THEN -1 ELSE 1)
    ELSE 0

\* StrictVersion._cmp
version_cmp(v, w) ==
    IF v.version # w.version THEN tuple_cmp(v.version, w.version)
    ELSE IF v.prerelease = << >> /\ w.prerelease = << >> THEN 0
    ELSE IF v.prerelease # << >> /\ w.prerelease = << >> THEN -1
    ELSE IF v.prerelease = << >> /\ w.prerelease # << >> THEN 1
    ELSE pre_cmp(v.prerelease, w.prerelease)

\* the comparison with > in place of >=
already_satisfied_strict(pip_version) ==
    version_cmp(pip_version, StrictVersion(PIP_VERSION)) > 0

\* pip_version >= min_pip_version
already_satisfied(pip_version) ==
    version_cmp(pip_version, StrictVersion(PIP_VERSION)) >= 0

\* has_pip_cache = pip_version >= StrictVersion('6.0')
pip_has_cache(pip_version) ==
    version_cmp(pip_version, StrictVersion(<<"6", ".", "0">>)) >= 0

(* ---------------------------- exceptions ------------------------------- *)
\* An exception object: its class, what caused it, its args, and the fetch
\* (index of the base, index of the manifest entry) that raised it.
Exc(type, reason, args, at) ==
    [type |-> type, reason |-> reason, args |-> args, at |-> at]

NoExc == Exc("None", "", << >>, <<0, 0>>)

\* the two digests passed in the other order
HashError_digests_swapped(url, path, actual, expected, at) ==
    Exc("HashError", "digest", <<url, path, expected, actual>>, at)

\* raise HashError(url, path, actual_digest, digest)
HashError(url, path, actual, expected, at) ==
    Exc("HashError", "digest", <<url, path, actual, expected>>, at)

\* HashError.__str__
HashError_str(e) ==
    <<e.args[1], " did not match the expected hash ", e.args[4],
      ". Instead, it was ", e.args[3], ". The file (left at ", e.args[2],
      ") may have been tampered with.">>

\* What opener(...).open(url) raises when the fetch fails: urllib wraps the
\* errors of name resolution and of connecting in URLError, and an HTTP error
\* status is an HTTPError, a subclass of URLError.
OpenFailures ==
    { [type |-> "URLError", reason |-> "dns"],
      [type |-> "URLError", reason |-> "connection refused"],
      [type |-> "URLError", reason |-> "timeout"],
      [type |-> "HTTPError", reason |-> "http status"] }

\* What response.read(chunk_size) raises when the body cannot be read: these
\* come from the socket and from the HTTP client, and are not URLErrors.
ReadFailures ==
    { [type |-> "socket.timeout", reason |-> "read timeout"],
      [type |-> "IncompleteRead", reason |-> "read failure"] }

\* a handler that also takes HashError for a failure of the mirror
is_URLError_or_HashError(e) == e.type \in {"URLError", "HTTPError", "HashError"}

\* a bare except Exception in place of except URLError
is_any_Exception(e) == TRUE

\* except URLError as exc
is_URLError(e) == e.type \in {"URLError", "HTTPError"}

\* no clause for HashError: every exception gets the cleanup and is re-raised
main_handler_no_hash_clause(e) == "rmtree_raise"

\* The except clause of main that takes the exception.
main_handler(e) ==
    IF e.type = "HashError" THEN "print" ELSE "rmtree_raise"

(* ---------------------------- environment ------------------------------ *)
RECURSIVE Slashes(_)
Slashes(n) == IF n = 0 THEN << >> ELSE <<"/">> \o Slashes(n - 1)

\* The values of PIPSTRAP_MIRRORS the model runs with.
EnvStems ==
    { << >>, <<"yes">>,
      <<"https:", "/", "/", "mirror.example">>,
      <<"http:", "/", "/", "mirror.example">>,
      DEFAULT_INDEX_BASE }

EnvValues == { stem \o Slashes(n) : stem \in EnvStems, n \in 0..MaxSlashes }

Environs == { [set |-> FALSE, value |-> << >>] } \cup
            { [set |-> TRUE, value |-> v] : v \in EnvValues }

\* environ.get('PIPSTRAP_MIRRORS', '')
environ_get(env, default) == IF env.set THEN env.value ELSE default

\* The version words `pip --version` prints in the model's runs.
PipVersionStrings ==
    { <<"1", ".", "5", ".", "6">>,
      <<"9", ".", "0">>,
      <<"9", ".", "0", ".", "1", "b", "1">>,
      <<"9", ".", "0", ".", "1">>,
      <<"9", ".", "0", ".", "2">>,
      <<"10", ".", "0", ".", "0">>,
      <<"18", ".", "1">>,
      <<"10", ".", "0", ".", "dev0">> }

\* Outputs of `pip --version`, as whitespace-separated words.
PipOutputs ==
    { << <<"pip">>, v, <<"from">>, <<"site-packages">> >> : v \in PipVersionStrings }
    \cup { << <<"pip">> >> }

RECURSIVE SeqsUpTo(_)
SeqsUpTo(n) ==
    IF n = 0 THEN { << >> }
    ELSE LET shorter == SeqsUpTo(n - 1)
         IN  shorter \cup { Append(s, x) : s \in { t \in shorter : Len(t) = n - 1 }, x \in Byte }

\* The bodies a server may send for a URL.
Bodies == SeqsUpTo(MaxBody)

\* The directory mkdtemp(prefix='pipstrap-') creates.
TempDir == <<"/", "tmp", "/", "pipstrap-XXXXXX">>

Min(a, b) == IF a < b THEN a ELSE b

(* --------------------------- get_index_bases --------------------------- *)
\* no base at all when the variable is empty or not set
get_index_bases_empty(env) ==
    LET env_var == environ_get(env, << >>)
    IN  IF env_var = << >> THEN << >>
        ELSE IF env_var = <<"yes">> THEN <<DEFAULT_INDEX_BASE>> \o MIRRORS
        ELSE <<rstrip_slash(env_var)>>

\* the explicit value taken as it is, trailing slashes kept
get_index_bases_no_rstrip(env) ==
    LET env_var == environ_get(env, << >>)
    IN  IF env_var = << >> THEN <<DEFAULT_INDEX_BASE>>
        ELSE IF env_var = <<"yes">> THEN <<DEFAULT_INDEX_BASE>> \o MIRRORS
        ELSE <<env_var>>

get_index_bases(env) ==
    LET env_var == environ_get(env, << >>)
    IN  IF env_var = << >> THEN <<DEFAULT_INDEX_BASE>>
        ELSE IF env_var = <<"yes">> THEN <<DEFAULT_INDEX_BASE>> \o MIRRORS
        ELSE <<rstrip_slash(env_var)>>

(* ------------------------------ state ---------------------------------- *)
VARIABLES
    environ,        \* os.environ, the entry PIPSTRAP_MIRRORS
    old_python,     \* version_info < (2, 7, 0)
    pc,             \* position of the run in main
    installed,      \* the version word `pip --version` printed
    has_pip_cache,  \* main's local
    temp,           \* main's local: the path mkdtemp returned, << >> before
    temp_exists,    \* whether that directory is on disk
    files,          \* the files of the workspace: path -> bytes
    index_bases,    \* hashed_downloads' argument
    base_i,         \* index in index_bases of the loop variable base
    pkg_i,          \* index in PACKAGES of the comprehension's entry
    acc,            \* the list the comprehension has built so far
    saved_exc,      \* hashed_downloads' local, NoExc while unbound
    url,            \* hashed_download's argument
    path,           \* hashed_download's local
    response,       \* bytes of the response body not read yet
    actual_hash,    \* bytes fed to the sha256 state
    downloads,      \* main's local
    exc,            \* the exception in flight, or the one that left main
    ret,            \* how main ended: "running", "return 0", "return 1", "raise"
    stdout,         \* what print wrote
    fetchLog,       \* history: the fetches, in order, each with its outcome
                    \* and the body the server had for it
    installLog,     \* history: the installer calls
    rmtreeLog,      \* history: the rmtree calls
    handlers,       \* opener.handlers of the opener of the fetch
    handler_i       \* position of the iteration over opener.handlers

vars == <<environ, old_python, pc, installed, has_pip_cache, temp, temp_exists,
          files, index_bases, base_i, pkg_i, acc, saved_exc, url, path, response,
          actual_hash, downloads, exc, ret, stdout, fetchLog, installLog, rmtreeLog,
          handlers, handler_i>>

config    == <<environ, old_python>>
mainVars  == <<installed, has_pip_cache, temp, downloads>>
loopVars  == <<index_bases, base_i, pkg_i, acc, saved_exc>>
fetchVars == <<url, path, response, actual_hash>>
diskVars  == <<temp_exists, files>>
endVars   == <<exc, ret, stdout>>
histVars  == <<fetchLog, installLog, rmtreeLog>>
openerVars == <<handlers, handler_i>>

NoFiles == [p \in {} |-> << >>]

Init ==
    /\ environ \in Environs
    /\ old_python \in BOOLEAN
    /\ pc = "check_version"
    /\ installed = << >>
    /\ has_pip_cache = FALSE
    /\ temp = << >>
    /\ temp_exists = FALSE
    /\ files = NoFiles
    /\ index_bases = << >>
    /\ base_i = 0
    /\ pkg_i = 0
    /\ acc = << >>
    /\ saved_exc = NoExc
    /\ url = << >>
    /\ path = << >>
    /\ response = << >>
    /\ actual_hash = << >>
    /\ downloads = << >>
    /\ exc = NoExc
    /\ ret = "running"
    /\ stdout = << >>
    /\ fetchLog = << >>
    /\ installLog = << >>
    /\ rmtreeLog = << >>
    /\ handlers = << >>
    /\ handler_i = 0

\* The outcome of the last fetch of the log becomes `outcome`.
Closed(log, outcome) ==
    [log EXCEPT ![Len(log)].outcome = outcome]

(* ------------------------------- main ---------------------------------- *)
\* An exception leaves main with no handler around it.
Uncaught(e) ==
    /\ exc' = e
    /\ ret' = "raise"
    /\ pc' = "done"

\* pip_version = StrictVersion(check_output(['pip', '--version'])...split()[1]);
\* if pip_version >= min_pip_version: return 0
CheckVersion ==
    /\ pc = "check_version"
    /\ \/ /\ Uncaught(Exc("CalledProcessError", "pip --version", << >>, <<0, 0>>))
          /\ UNCHANGED <<installed, has_pip_cache, stdout>>
       \/ \E out \in PipOutputs :
             IF Len(out) < 2
             THEN /\ Uncaught(Exc("IndexError", "split()[1]", << >>, <<0, 0>>))
                  /\ UNCHANGED <<installed, has_pip_cache, stdout>>
             ELSE LET pip_version == StrictVersion(out[2])
                  IN  /\ installed' = out[2]
                      /\ IF ~pip_version.ok
                         THEN /\ Uncaught(Exc("ValueError", "invalid version number",
                                              << >>, <<0, 0>>))
                              /\ UNCHANGED <<has_pip_cache, stdout>>
                         ELSE IF already_satisfied(pip_version)
                         THEN /\ ret' = "return 0"
                              /\ pc' = "done"
                              /\ UNCHANGED <<has_pip_cache, exc, stdout>>
                         ELSE /\ has_pip_cache' = pip_has_cache(pip_version)
                              /\ pc' = "mkdtemp"
                              /\ UNCHANGED endVars
    /\ UNCHANGED <<config, openerVars, temp, downloads, loopVars, fetchVars, diskVars, histVars>>

\* temp = mkdtemp(prefix='pipstrap-')
Mkdtemp ==
    /\ pc = "mkdtemp"
    /\ \/ /\ temp' = TempDir
          /\ temp_exists' = TRUE
          /\ pc' = "get_index_bases"
          /\ UNCHANGED endVars
       \/ /\ Uncaught(Exc("OSError", "mkdtemp", << >>, <<0, 0>>))
          /\ UNCHANGED <<temp, temp_exists, stdout>>
    /\ UNCHANGED <<config, openerVars, installed, has_pip_cache, downloads, files, loopVars,
                   fetchVars, histVars>>

\* hashed_downloads(temp, get_index_bases()): the call, up to the for loop
CallHashedDownloads ==
    /\ pc = "get_index_bases"
    /\ index_bases' = get_index_bases(environ)
    /\ base_i' = 1
    /\ pc' = "for_base"
    /\ UNCHANGED <<config, openerVars, mainVars, pkg_i, acc, saved_exc, fetchVars, diskVars,
                   endVars, histVars>>

(* -------------------------- hashed_downloads --------------------------- *)
\* only the first failure is kept
save_exc_first(old, new) == IF old.type = "None" THEN new ELSE old

\* saved_exc = exc
save_exc(old, new) == new

\* a loop that steps over every other base
next_base_skip(i) == i + 2

\* a retry of the base that failed, in place of the next one
next_base_retry(i) == i

\* for base in index_bases: the index of the base after the one at index i
next_base(i) == i + 1

\* one list shared by all the passes, appended to by each
comprehension_keep(earlier) == earlier

\* [hashed_download(...) for path, digest in PACKAGES]: the list a new
\* evaluation of the comprehension starts from, whatever an earlier one built
comprehension_start(earlier) == << >>

\* An exception raised by hashed_download inside the try of hashed_downloads:
\* a URLError is saved and the for loop goes on to the next base, anything
\* else leaves hashed_downloads and reaches the handlers of main.
RaiseInDownload(e) ==
    IF is_URLError(e)
    THEN /\ saved_exc' = save_exc(saved_exc, e)
         /\ base_i' = next_base(base_i)
         /\ pc' = "for_base"
         /\ UNCHANGED exc
    ELSE /\ exc' = e
         /\ pc' = "main_except"
         /\ UNCHANGED <<saved_exc, base_i>>

\* for base in index_bases: ... raise saved_exc
ForBase ==
    /\ pc = "for_base"
    /\ IF base_i <= Len(index_bases)
       THEN /\ pkg_i' = 1
            /\ acc' = comprehension_start(acc)
            /\ pc' = "open"
            /\ UNCHANGED exc
       ELSE /\ exc' = IF saved_exc = NoExc
                      THEN Exc("UnboundLocalError", "saved_exc", << >>, <<0, 0>>)
                      ELSE saved_exc
            /\ pc' = "main_except"
            /\ UNCHANGED <<pkg_i, acc>>
    /\ UNCHANGED <<config, openerVars, mainVars, index_bases, base_i, saved_exc, fetchVars,
                   diskVars, ret, stdout, histVars>>

(* --------------------------- hashed_download --------------------------- *)
\* opener.handlers as build_opener(HTTPSHandler()) leaves it: the handlers
\* of the default classes in the order of their handler_order, the
\* ProxyHandler only when a proxy is configured (with_proxy), the
\* DataHandler only where urllib has one (with_data), and the HTTPSHandler
\* that was passed in.
build_opener(with_proxy, with_data) ==
    (IF with_proxy THEN <<"ProxyHandler">> ELSE << >>)
    \o <<"UnknownHandler", "HTTPHandler", "HTTPDefaultErrorHandler",
         "HTTPRedirectHandler", "FTPHandler", "FileHandler">>
    \o (IF with_data THEN <<"DataHandler">> ELSE << >>)
    \o <<"HTTPSHandler", "HTTPErrorProcessor">>

\* a test for the wrong class
is_HTTPHandler_wrong_class(handler) == handler = "HTTPSHandler"

\* isinstance(handler, HTTPHandler)
is_HTTPHandler(handler) == handler = "HTTPHandler"

\* list.remove(x): the list without the first element equal to x
RECURSIVE list_remove(_, _)
list_remove(list, x) ==
    IF list = << >> THEN << >>
    ELSE IF Head(list) = x THEN Tail(list)
    ELSE <<Head(list)>> \o list_remove(Tail(list), x)

\* One iteration of `for handler in opener.handlers`, the iterator at
\* position i of the list hs as it is now: the element there is the
\* handler, the iterator moves on by one, and the body removes the handler
\* from the list when it is an HTTPHandler.
strip_step(hs, i) ==
    [handlers |-> IF is_HTTPHandler(hs[i]) THEN list_remove(hs, hs[i]) ELSE hs,
     i |-> i + 1]

\* The for loop from position i on: it ends when the iterator is past the
\* end of the list as it is then.
RECURSIVE strip_loop(_, _)
strip_loop(hs, i) ==
    IF i > Len(hs) THEN [handlers |-> hs, i |-> i]
    ELSE LET next == strip_step(hs, i)
         IN  strip_loop(next.handlers, next.i)

\* opener(using_https), given the handlers build_opener made
opener(built, using_https) ==
    IF using_https THEN strip_loop(built, 1) ELSE [handlers |-> built, i |-> 0]

\* using_https=parsed_url.scheme == 'https'
using_https(u) == url_scheme(u) = <<"https:">>

\* base + '/packages/' + path
package_url(base, pkg) == base \o <<"/", "packages", "/">> \o pkg.path

\* join(temp, parsed_url.path.split('/')[-1])
download_path(dir, u) == join(dir, last_segment(u))

\* the file opened for appending: what it held is kept
open_ab(fs, p, fetch) ==
    [q \in DOMAIN fs \cup {p} |->
        IF q = p
        THEN [content |-> IF p \in DOMAIN fs THEN fs[p].content ELSE << >>,
              fetch |-> fetch]
        ELSE fs[q]]

\* open(path, 'wb'): the file is created or truncated; `fetch` is history,
\* the index in fetchLog of the fetch that opened it.
open_wb(fs, p, fetch) ==
    [q \in DOMAIN fs \cup {p} |->
        IF q = p THEN [content |-> << >>, fetch |-> fetch] ELSE fs[q]]

\* the chunk hashed but not written
file_write_left_out(fs, p, chunk) == fs

\* file.write(chunk)
file_write(fs, p, chunk) ==
    [fs EXCEPT ![p].content = @ \o chunk]

\* hashed_download, from its call to `with open(path, 'wb')`.  The opener is
\* the one of a run with no proxy configured and a urllib without
\* DataHandler; OpenerSpec below takes the others.
Open ==
    /\ pc = "open"
    /\ LET pkg == PACKAGES(old_python)[pkg_i]
           u   == package_url(index_bases[base_i], pkg)
           p   == download_path(temp, u)
           at  == <<base_i, pkg_i>>
           fetch(outcome, body) ==
               [base |-> base_i, pkg |-> pkg_i, outcome |-> outcome, body |-> body]
           the_opener == opener(build_opener(FALSE, FALSE), using_https(u))
       IN  /\ url' = u
           /\ handlers' = the_opener.handlers
           /\ handler_i' = the_opener.i
           /\ IF url_scheme(u) = << >>
              THEN \* urlopen rejects the URL before it contacts anything
                   /\ RaiseInDownload(Exc("ValueError", "unknown url type", << >>, at))
                   /\ UNCHANGED <<path, response, actual_hash, files, fetchLog>>
              ELSE \/ \E f \in OpenFailures :
                         /\ RaiseInDownload(Exc(f.type, f.reason, << >>, at))
                         /\ fetchLog' = Append(fetchLog, fetch("URLError", << >>))
                         /\ UNCHANGED <<path, response, actual_hash, files>>
                   \/ /\ RaiseInDownload(Exc("OSError", "open(path, 'wb')", << >>, at))
                      /\ fetchLog' = Append(fetchLog, fetch("os_error", << >>))
                      /\ path' = p
                      /\ UNCHANGED <<response, actual_hash, files>>
                   \/ \E body \in Bodies :
                         /\ response' = body
                         /\ path' = p
                         /\ actual_hash' = << >>
                         /\ files' = open_wb(files, p, Len(fetchLog) + 1)
                         /\ fetchLog' = Append(fetchLog, fetch("open", body))
                         /\ pc' = "read"
                         /\ UNCHANGED <<saved_exc, base_i, exc>>
    /\ UNCHANGED <<config, mainVars, index_bases, pkg_i, acc, temp_exists, ret,
                   stdout, installLog, rmtreeLog>>

\* for chunk in read_chunks(response, 4096): file.write(chunk);
\* actual_hash.update(chunk)
Read ==
    /\ pc = "read"
    /\ \/ /\ response # << >>
          /\ \E n \in 1..Min(Len(response), CHUNK_SIZE) :
                LET chunk == SubSeq(response, 1, n)
                IN  /\ files' = file_write(files, path, chunk)
                    /\ actual_hash' = actual_hash \o chunk
                    /\ response' = SubSeq(response, n + 1, Len(response))
          /\ UNCHANGED <<pc, saved_exc, base_i, exc, fetchLog>>
       \/ /\ response = << >>
          /\ pc' = "verify"
          /\ UNCHANGED <<files, actual_hash, response, saved_exc, base_i, exc, fetchLog>>
       \/ \E f \in ReadFailures :
             /\ RaiseInDownload(Exc(f.type, f.reason, << >>, <<base_i, pkg_i>>))
             /\ fetchLog' = Closed(fetchLog, "read_error")
             /\ UNCHANGED <<files, actual_hash, response>>
    /\ UNCHANGED <<config, openerVars, mainVars, index_bases, pkg_i, acc, url, path, temp_exists,
                   ret, stdout, installLog, rmtreeLog>>

\* the comparison left out: every download passes
digest_mismatch_never(actual_digest, digest) == FALSE

\* if actual_digest != digest
digest_mismatch(actual_digest, digest) == actual_digest # digest

\* actual_digest = actual_hash.hexdigest(); raise HashError or return path;
\* with the comprehension's step to the next entry, or hashed_downloads' return
Verify ==
    /\ pc = "verify"
    /\ LET pkg == PACKAGES(old_python)[pkg_i]
           actual_digest == hexdigest(actual_hash)
       IN  IF digest_mismatch(actual_digest, pkg.digest)
           THEN /\ RaiseInDownload(HashError(url, path, actual_digest, pkg.digest,
                                             <<base_i, pkg_i>>))
                /\ fetchLog' = Closed(fetchLog, "HashError")
                /\ UNCHANGED <<pkg_i, acc, downloads>>
           ELSE /\ fetchLog' = Closed(fetchLog, "verified")
                /\ acc' = Append(acc, path)
                /\ IF pkg_i < Len(PACKAGES(old_python))
                   THEN /\ pkg_i' = pkg_i + 1
                        /\ pc' = "open"
                        /\ UNCHANGED downloads
                   ELSE /\ downloads' = acc'
                        /\ pc' = "install"
                        /\ UNCHANGED pkg_i
                /\ UNCHANGED <<saved_exc, base_i, exc>>
    /\ UNCHANGED <<config, openerVars, installed, has_pip_cache, temp, index_bases, fetchVars,
                   diskVars, ret, stdout, installLog, rmtreeLog>>

(* --------------------------- main, continued --------------------------- *)
\* check_output('pip install --no-index --no-deps -U ' + ..., shell=True)
Install ==
    /\ pc = "install"
    /\ installLog' = Append(installLog,
            [no_cache_dir |-> has_pip_cache,
             paths |-> downloads,
             contents |-> [i \in 1..Len(downloads) |->
                             IF downloads[i] \in DOMAIN files
                             THEN files[downloads[i]].content ELSE << >>]])
    /\ \/ /\ pc' = "main_else"
          /\ UNCHANGED exc
       \/ /\ exc' = Exc("CalledProcessError", "pip install", << >>, <<0, 0>>)
          /\ pc' = "main_except"
    /\ UNCHANGED <<config, openerVars, mainVars, loopVars, fetchVars, diskVars, ret, stdout,
                   fetchLog, rmtreeLog>>

\* the cleanup left out
rmtree_left_out(log) == log

\* rmtree(temp)
rmtree(log) == Append(log, temp)

\* except HashError as exc: print(exc) ... return 1
\* except Exception: rmtree(temp); raise
MainExcept ==
    /\ pc = "main_except"
    /\ IF main_handler(exc) = "print"
       THEN /\ stdout' = Append(stdout, HashError_str(exc))
            /\ ret' = "return 1"
            /\ UNCHANGED <<diskVars, rmtreeLog>>
       ELSE /\ rmtreeLog' = rmtree(rmtreeLog)
            /\ temp_exists' = FALSE
            /\ files' = NoFiles
            /\ ret' = "raise"
            /\ UNCHANGED stdout
    /\ pc' = "done"
    /\ UNCHANGED <<config, openerVars, mainVars, loopVars, fetchVars, exc, fetchLog, installLog>>

\* the else clause without its return: the run falls through to return 1
else_return_fall_through == "return 1"

\* return 0, the last statement of the else clause
else_return == "return 0"

\* else: rmtree(temp); return 0
MainElse ==
    /\ pc = "main_else"
    /\ rmtreeLog' = rmtree(rmtreeLog)
    /\ temp_exists' = FALSE
    /\ files' = NoFiles
    /\ ret' = else_return
    /\ pc' = "done"
    /\ UNCHANGED <<config, openerVars, mainVars, loopVars, fetchVars, exc, stdout, fetchLog,
                   installLog>>

Next ==
    \/ CheckVersion
    \/ Mkdtemp
    \/ CallHashedDownloads
    \/ ForBase
    \/ Open
    \/ Read
    \/ Verify
    \/ Install
    \/ MainExcept
    \/ MainElse

Spec == Init /\ [][Next]_vars

(* ----------------- the opener of hashed_download, by steps -------------- *)
\* The list with x put in before position i.
insert_at(list, i, x) ==
    SubSeq(list, 1, i - 1) \o <<x>> \o SubSeq(list, i, Len(list))

\* The handler lists build_opener(HTTPSHandler()) can leave: those of the
\* four kinds of run, and the same with the HTTPHandler at any other place
\* among its fellows (handler_order decides the place).
BuiltHandlers ==
    UNION { LET others == list_remove(build_opener(with_proxy, with_data),
                                      "HTTPHandler")
            IN  { insert_at(others, i, "HTTPHandler") : i \in 1..(Len(others) + 1) }
          : with_proxy \in BOOLEAN, with_data \in BOOLEAN }

\* The URLs hashed_download is called with here: the first entry of
\* PACKAGES at an https base and at an http base.
OpenerUrls ==
    { package_url(base, PACKAGES(FALSE)[1])
      : base \in { DEFAULT_INDEX_BASE, <<"http:", "/", "/", "mirror.example">> } }

openerRest == <<config, mainVars, loopVars, path, response, actual_hash,
                diskVars, endVars, histVars>>

\* hashed_download is entered with a URL; nothing else of the run matters.
OpenerInit ==
    /\ url \in OpenerUrls
    /\ pc = "build_opener"
    /\ handlers = << >>
    /\ handler_i = 0
    /\ environ = [set |-> FALSE, value |-> << >>]
    /\ old_python = FALSE
    /\ installed = << >>
    /\ has_pip_cache = FALSE
    /\ temp = TempDir
    /\ temp_exists = TRUE
    /\ files = NoFiles
    /\ index_bases = << >>
    /\ base_i = 0
    /\ pkg_i = 0
    /\ acc = << >>
    /\ saved_exc = NoExc
    /\ path = << >>
    /\ response = << >>
    /\ actual_hash = << >>
    /\ downloads = << >>
    /\ exc = NoExc
    /\ ret = "running"
    /\ stdout = << >>
    /\ fetchLog = << >>
    /\ installLog = << >>
    /\ rmtreeLog = << >>

\* opener = build_opener(HTTPSHandler()); if using_https: the for starts
BuildOpener ==
    /\ pc = "build_opener"
    /\ handlers' \in BuiltHandlers
    /\ IF using_https(url)
       THEN pc' = "for_handler" /\ handler_i' = 1
       ELSE pc' = "return_opener" /\ handler_i' = 0
    /\ UNCHANGED <<url, openerRest>>

\* one iteration of `for handler in opener.handlers`
ForHandler ==
    /\ pc = "for_handler"
    /\ handler_i <= Len(handlers)
    /\ LET next == strip_step(handlers, handler_i)
       IN  handlers' = next.handlers /\ handler_i' = next.i
    /\ UNCHANGED <<pc, url, openerRest>>

\* the iterator is past the end of the list: return opener
ReturnOpener ==
    /\ pc = "for_handler"
    /\ handler_i > Len(handlers)
    /\ pc' = "return_opener"
    /\ UNCHANGED <<openerVars, url, openerRest>>

OpenerNext ==
    \/ BuildOpener
    \/ ForHandler
    \/ ReturnOpener

OpenerSpec == OpenerInit /\ [][OpenerNext]_vars

(* ------------------------------ claims --------------------------------- *)
Manifest == PACKAGES(old_python)

\* The fetches of the last pass over a base that the log holds: the last
\* Len(Manifest) entries of fetchLog, when there are that many.
LastPass(i) == fetchLog[Len(fetchLog) - Len(Manifest) + i]

\* C1: the installer is called, or about to be called, only when every
\* manifest entry was downloaded and its SHA-256 found equal to the pinned
\* digest in one pass over one base: the last Len(PACKAGES) fetches are the
\* entries in order, all verified, all from the same base, and the bytes on
\* disk at each path the installer gets hash to the entry's pinned digest.
C1_InstallOnlyVerified ==
    (pc = "install" \/ installLog # << >>) =>
        /\ Len(fetchLog) >= Len(Manifest)
        /\ Len(downloads) = Len(Manifest)
        /\ \A i \in 1..Len(Manifest) :
              /\ LastPass(i).pkg = i
              /\ LastPass(i).outcome = "verified"
              /\ LastPass(i).base = fetchLog[Len(fetchLog)].base
        /\ pc = "install" =>
              \A i \in 1..Len(Manifest) :
                 /\ downloads[i] \in DOMAIN files
                 /\ hexdigest(files[downloads[i]].content) = Manifest[i].digest
        /\ \A k \in 1..Len(installLog) :
              /\ installLog[k].paths = downloads
              /\ \A i \in 1..Len(Manifest) :
                    hexdigest(installLog[k].contents[i]) = Manifest[i].digest

\* C1 witness: the installer has been called after a failover to a later base.
C1_Witness ==
    /\ installLog # << >>
    /\ fetchLog[Len(fetchLog)].base > 1
    /\ old_python

\* C2: a hash mismatch is the last fetch of the run: no entry is fetched
\* after it, from this base or a later one, and the installer is not called.
C2_MismatchStopsRun ==
    \A i \in 1..Len(fetchLog) :
        fetchLog[i].outcome = "HashError" =>
            /\ i = Len(fetchLog)
            /\ installLog = << >>
            /\ pc \in {"main_except", "done"}
            /\ ret # "return 0"

\* C2 witness: the run has ended on a mismatch with entries and bases left.
C2_Witness ==
    /\ pc = "done"
    /\ fetchLog # << >>
    /\ fetchLog[Len(fetchLog)].outcome = "HashError"
    /\ fetchLog[Len(fetchLog)].pkg < Len(Manifest)
    /\ fetchLog[Len(fetchLog)].base < Len(index_bases)

\* The path where the download of manifest entry i is expected: the file
\* name of the entry, in the workspace.
ExpectedPath(i) ==
    <<"/", "tmp", "/", "pipstrap-XXXXXX", "/", Manifest[i].path[Len(Manifest[i].path)]>>

\* hashed_downloads has returned its list to main.
Returned == pc \in {"install", "main_else"} \/ installLog # << >>

\* C3: failover is stable and exhaustive. No fetch goes to a base of lower
\* index than an earlier fetch did; and when hashed_downloads returns from
\* base k, every base before k was tried and failed with a network error,
\* and the result is what a success from base k alone gives: the manifest's
\* paths in the workspace, holding the genuine archives.
C3_FailoverStable ==
    /\ \A i, j \in 1..Len(fetchLog) :
          i < j => fetchLog[i].base <= fetchLog[j].base
    /\ Returned =>
          LET k == fetchLog[Len(fetchLog)].base
          IN  /\ \A b \in 1..(k - 1) :
                    \E i \in 1..Len(fetchLog) :
                       fetchLog[i].base = b /\ fetchLog[i].outcome = "URLError"
              /\ \A i \in 1..Len(fetchLog) :
                    fetchLog[i].base = k => fetchLog[i].outcome = "verified"
              /\ downloads = [i \in 1..Len(Manifest) |-> ExpectedPath(i)]
              /\ pc = "install" =>
                    \A i \in 1..Len(Manifest) :
                       files[downloads[i]].content = GenuineArchive[Manifest[i].digest]

\* C3 witness: hashed_downloads has returned from the third base.
C3_Witness ==
    /\ pc = "install"
    /\ fetchLog[Len(fetchLog)].base = 3
    /\ fetchLog[1].pkg # fetchLog[Len(fetchLog) - Len(Manifest)].pkg

\* The run ended on a hash mismatch.
MismatchEnded ==
    fetchLog # << >> /\ fetchLog[Len(fetchLog)].outcome = "HashError"

\* C4: once a run that created the workspace has ended, the workspace is
\* on disk exactly when the run ended on a hash mismatch.
C4_WorkspaceCleanup ==
    (pc = "done" /\ temp # << >>) => (temp_exists <=> MismatchEnded)

\* C4 witness: a run ended on a mismatch after a failover, workspace kept,
\* with the mismatching file in it.
C4_Witness ==
    /\ pc = "done"
    /\ temp # << >>
    /\ MismatchEnded
    /\ temp_exists
    /\ fetchLog[Len(fetchLog)].base > 1
    /\ path \in DOMAIN files

\* The version word s is a version at least the pinned 9.0.1: its release
\* numbers are above (9, 0, 1), or equal to them in a final release.
AtLeastTarget(s) ==
    LET v == StrictVersion(s)
    IN  /\ v.ok
        /\ \/ v.version[1] > 9
           \/ v.version[1] = 9 /\ v.version[2] > 0
           \/ v.version[1] = 9 /\ v.version[2] = 0 /\ v.version[3] > 1
           \/ v.version = <<9, 0, 1>> /\ v.prerelease = << >>

\* C5: with an installed pip at least the pinned version, main has returned
\* 0 as soon as the version is known, with no workspace created, no fetch
\* and no installer call.
C5_SatisfiedShortCircuit ==
    (installed # << >> /\ AtLeastTarget(installed)) =>
        /\ pc = "done"
        /\ ret = "return 0"
        /\ exc = NoExc
        /\ temp = << >>
        /\ ~temp_exists
        /\ index_bases = << >>
        /\ fetchLog = << >>
        /\ installLog = << >>

\* C5 witness: the run with pip 10.0.0 installed has ended.
C5_Witness ==
    /\ installed = <<"10", ".", "0", ".", "0">>
    /\ pc = "done"

\* Every base of the list was tried and failed with a network error.
AllBasesFailed ==
    /\ index_bases # << >>
    /\ \A b \in 1..Len(index_bases) :
          \E i \in 1..Len(fetchLog) :
             /\ fetchLog[i].base = b
             /\ fetchLog[i].outcome \in {"URLError", "read_error"}

\* C6: when every base has failed with a network error and hashed_downloads
\* has failed, the error it raised is a network error, the one of the last
\* fetch of the last base of the list, and the run did not return a status.
C6_ExhaustedRaisesLast ==
    (pc \in {"main_except", "done"} /\ AllBasesFailed) =>
        LET last == fetchLog[Len(fetchLog)]
        IN  /\ last.base = Len(index_bases)
            /\ exc.at = <<last.base, last.pkg>>
            /\ exc.type \in {"URLError", "HTTPError", "socket.timeout", "IncompleteRead"}
            /\ last.outcome = "URLError" => exc = saved_exc
            /\ pc = "done" => ret = "raise"

\* C6 witness: four bases failed with URLErrors, the last on another entry
\* than the first, and the error has left hashed_downloads.
C6_Witness ==
    /\ pc = "main_except"
    /\ AllBasesFailed
    /\ Len(index_bases) = 4
    /\ exc.type = "HTTPError"
    /\ fetchLog[1].pkg # fetchLog[Len(fetchLog)].pkg

\* C7: when hashed_downloads returns, its list has one path per manifest
\* entry, in manifest order; the file at the i-th path was written by the
\* fetch of entry i in the pass over the base that returned, that fetch was
\* verified, and the bytes on disk hash to the entry's pinned digest.
C7_ReturnsManifestPaths ==
    pc = "install" =>
        /\ Len(downloads) = Len(Manifest)
        /\ \A i \in 1..Len(downloads) :
              /\ downloads[i] = ExpectedPath(i)
              /\ downloads[i] \in DOMAIN files
              /\ files[downloads[i]].fetch = Len(fetchLog) - Len(Manifest) + i
              /\ LET f == fetchLog[files[downloads[i]].fetch]
                 IN  /\ f.pkg = i
                     /\ f.base = base_i
                     /\ f.outcome = "verified"
              /\ hexdigest(files[downloads[i]].content) = Manifest[i].digest

\* C7 witness: hashed_downloads has returned four paths from the second
\* base, after the first base failed on its third entry.
C7_Witness ==
    /\ pc = "install"
    /\ Len(downloads) = 4
    /\ base_i = 2
    /\ Len(fetchLog) = 7

\* The installed pip was found new enough.
Satisfied == installed # << >> /\ AtLeastTarget(installed)

\* The installer was called and did not fail.
InstallCompleted == installLog # << >> /\ exc.reason # "pip install"

\* The installer was called and failed.
InstallerFailed == installLog # << >> /\ exc.reason = "pip install"

\* The last base of the list failed with a URLError.
Exhausted ==
    /\ fetchLog # << >>
    /\ fetchLog[Len(fetchLog)].outcome = "URLError"
    /\ fetchLog[Len(fetchLog)].base = Len(index_bases)

\* C8: at the end of a run, main returned 0 exactly when pip was new
\* enough or the installer completed; it returned 1 exactly when a hash
\* mismatch ended the downloads, and then the diagnostic was printed; after
\* exhausted mirrors or a failed installer it returned nothing and the
\* error itself left main.
C8_ExitStatus ==
    pc = "done" =>
        /\ ret = "return 0" <=> (Satisfied \/ InstallCompleted)
        /\ ret = "return 1" <=> MismatchEnded
        /\ ret = "return 1" => (stdout # << >> /\ exc.type = "HashError")
        /\ Exhausted => (ret = "raise" /\ exc = saved_exc /\ is_URLError(exc))
        /\ InstallerFailed => (ret = "raise" /\ exc.type = "CalledProcessError")

\* C8 witness: a run ended by the URLError of the last of four bases.
C8_Witness ==
    /\ pc = "done"
    /\ Exhausted
    /\ Len(index_bases) = 4
    /\ ret = "raise"

\* get_index_bases has returned.
BasesResolved == index_bases # << >>

\* The value of PIPSTRAP_MIRRORS, the empty string when it is not set.
EnvValue == IF environ.set THEN environ.value ELSE << >>

\* The default base followed by the alternate mirrors, in declared order.
FallbackList ==
    << <<"https:", "/", "/", "pypi.python.org">>,
       <<"https:", "/", "/", "pypi.tuna.tsinghua.edu.cn">>,
       <<"https:", "/", "/", "pypi.doubanio.com">>,
       <<"https:", "/", "/", "mirrors.ustc.edu.cn", "/", "pypi", "/", "web">> >>

\* v without the '/' it ends with: the longest prefix of v that does not
\* end with '/'.
WithoutTrailingSlashes(v) ==
    LET n == CHOOSE k \in 0..Len(v) :
                 /\ k = 0 \/ v[k] # "/"
                 /\ \A i \in (k + 1)..Len(v) : v[i] = "/"
    IN  SubSeq(v, 1, n)

\* The fetch in progress goes to base b.
FetchGoesTo(b) ==
    pc \in {"read", "verify"} =>
        SubSeq(url, 1, Len(b) + 3) = b \o <<"/", "packages", "/">>

\* C9 as stated: unset or empty gives the default base alone, yes gives
\* the default base and then the mirrors in declared order, and any other
\* value gives the list of that value alone, so that neither the default
\* base nor a hardcoded mirror is contacted.
C9_ExplicitValueAsGiven ==
    BasesResolved =>
        IF EnvValue = << >> THEN index_bases = << FallbackList[1] >>
        ELSE IF EnvValue = <<"yes">> THEN index_bases = FallbackList
        ELSE /\ index_bases = << EnvValue >>
             /\ \A i \in 1..Len(fetchLog) :
                   \A k \in 1..Len(FallbackList) :
                      index_bases[fetchLog[i].base] # FallbackList[k]

\* C9 amended: unset or empty gives the default base alone, yes gives the
\* default base and then the mirrors in declared order, and any other value
\* gives the list of one element, the value without its trailing '/'; in
\* that mode every fetch goes to that one base.
C9_IndexBases ==
    BasesResolved =>
        IF EnvValue = << >> THEN index_bases = << FallbackList[1] >>
        ELSE IF EnvValue = <<"yes">> THEN index_bases = FallbackList
        ELSE /\ index_bases = << WithoutTrailingSlashes(EnvValue) >>
             /\ \A i \in 1..Len(fetchLog) : fetchLog[i].base = 1
             /\ FetchGoesTo(WithoutTrailingSlashes(EnvValue))

\* C9 witness: a fetch is under way with PIPSTRAP_MIRRORS set to a URL that
\* ends with two '/'.
C9_Witness ==
    /\ environ.set
    /\ environ.value = <<"https:", "/", "/", "mirror.example", "/", "/">>
    /\ pc = "read"
    /\ fetchLog # << >>

\* What the errors of the network are called in the exceptions of the model.
NetworkReasons ==
    {"dns", "connection refused", "timeout", "http status", "read failure",
     "read timeout"}

\* C10: a network failure of any kind (name resolution, refused connection,
\* HTTP error status, timeout, failure while reading the body) leaves
\* hashed_downloads only when it happened on the last base of the list; on
\* an earlier base it is recovered by going on to the next base.
C10_NetworkFailuresRecovered ==
    (pc \in {"main_except", "done"} /\ exc.reason \in NetworkReasons) =>
        exc.at[1] = Len(index_bases)

\* main returned 0 at the version check, before anything else was done.
ShortCircuited ==
    /\ pc = "done"
    /\ ret = "return 0"
    /\ temp = << >>
    /\ fetchLog = << >>
    /\ installLog = << >>

\* The version check has been made on a version StrictVersion accepts.
VersionChecked == installed # << >> /\ StrictVersion(installed).ok

\* (major, minor, patch) >= (9, 0, 1) as tuples of integers
TupleAtLeastTarget(t) ==
    \/ t[1] > 9
    \/ t[1] = 9 /\ t[2] > 0
    \/ t[1] = 9 /\ t[2] = 0 /\ t[3] >= 1

\* C11 as stated: main short-circuits exactly when (major, minor, patch) of
\* the installed version is at least (9, 0, 1) as a tuple of integers.
C11_TupleOrderDecides ==
    VersionChecked =>
        (ShortCircuited <=> TupleAtLeastTarget(StrictVersion(installed).version))

\* C11 amended: main short-circuits exactly when (major, minor, patch) of
\* the installed version, compared number by number, is above (9, 0, 1), or
\* is (9, 0, 1) and the version is a final release; a pre-release of 9.0.1
\* (9.0.1a1, 9.0.1b1) is below the target and is upgraded.
C11_VersionOrderDecides ==
    VersionChecked =>
        LET v == StrictVersion(installed)
        IN  ShortCircuited <=>
               /\ TupleAtLeastTarget(v.version)
               /\ ~(v.version = <<9, 0, 1>> /\ v.prerelease # << >>)

\* C11 witness: with 9.0.1b1 installed the run goes on to the upgrade.
C11_Witness ==
    /\ installed = <<"9", ".", "0", ".", "1", "b", "1">>
    /\ pc = "mkdtemp"

\* C12: the fetches are ordered. The first goes to the first base for the
\* first manifest entry; each later one either goes to the same base for
\* the next entry, after the fetch before it was verified, or goes to the
\* next base for the first entry, after the fetch before it failed with a
\* URLError. A fetch that is not the last has ended.
C12_FetchOrder ==
    /\ fetchLog # << >> => (fetchLog[1].base = 1 /\ fetchLog[1].pkg = 1)
    /\ \A i \in 1..(Len(fetchLog) - 1) :
          LET f == fetchLog[i]
              g == fetchLog[i + 1]
          IN  \/ /\ g.base = f.base
                 /\ g.pkg = f.pkg + 1
                 /\ f.outcome = "verified"
              \/ /\ g.base = f.base + 1
                 /\ g.pkg = 1
                 /\ f.outcome = "URLError"
    /\ \A i \in 1..Len(fetchLog) :
          /\ fetchLog[i].base \in 1..Len(index_bases)
          /\ fetchLog[i].pkg \in 1..Len(Manifest)

\* C12 witness: a fetch from the second base follows a first base that
\* failed on its second entry, and a second entry is being fetched again.
C12_Witness ==
    /\ Len(fetchLog) = 4
    /\ fetchLog[2].outcome = "URLError"
    /\ fetchLog[3].base = 2
    /\ fetchLog[4].pkg = 2
    /\ pc = "read"

\* The steps one fetch takes at most: the open, a read per byte of the
\* body, the read that ends the stream, the comparison.
FetchSteps == MaxBody + 4

\* The steps one pass over a base takes at most.
PassSteps == Len(PACKAGES(TRUE)) * FetchSteps + 1

\* The steps left after the downloads: the installer, the handler, the end.
TailSteps == Len(<<"install", "main_else", "main_except", "done">>) + 1

\* The number of bases the loop of hashed_downloads runs over.
BaseCount == IF index_bases = << >> THEN Len(FallbackList) ELSE Len(index_bases)

\* An upper bound of the number of steps the run has left, in each state.
Rank ==
    LET laterPasses == (BaseCount - base_i) * PassSteps
        laterFetches == (Len(Manifest) - pkg_i) * FetchSteps
    IN  CASE pc = "check_version"   -> TailSteps + Len(FallbackList) * PassSteps + 3
          [] pc = "mkdtemp"         -> TailSteps + Len(FallbackList) * PassSteps + 2
          [] pc = "get_index_bases" -> TailSteps + Len(FallbackList) * PassSteps + 1
          [] pc = "for_base"        -> TailSteps + laterPasses + PassSteps
          [] pc = "open"            -> TailSteps + laterPasses + laterFetches + FetchSteps
          [] pc = "read"            -> TailSteps + laterPasses + laterFetches
                                       + Len(response) + 2
          [] pc = "verify"          -> TailSteps + laterPasses + laterFetches + 1
          [] pc = "install"         -> 3
          [] pc = "main_except"     -> 2
          [] pc = "main_else"       -> 2
          [] pc = "done"            -> 0

\* No (base, manifest entry) pair is fetched twice.
NoFetchTwice ==
    \A i, j \in 1..Len(fetchLog) :
        (fetchLog[i].base = fetchLog[j].base /\ fetchLog[i].pkg = fetchLog[j].pkg)
            => i = j

\* C13: every run ends, given that each fetch and each subprocess call
\* returns. Each step of the run lowers a bound of the number of steps left,
\* which is never negative and is 0 only once main has ended; no (base,
\* entry) pair is fetched twice, a run makes at most len(index_bases) *
\* len(PACKAGES) fetches, and at most one call of the installer.
C13_RunTerminates ==
    [][ /\ Rank' < Rank
        /\ Rank' >= 0
        /\ (Rank' = 0 <=> (pc' = "done" /\ ret' # "running"))
        /\ NoFetchTwice'
        /\ Len(fetchLog') <= BaseCount' * Len(Manifest)
        /\ Len(installLog') <= 1 ]_vars

\* C13 witness: a run has ended after three bases failed on their fourth
\* entry, the fourth base served all four, and the installer was called.
C13_Witness ==
    /\ pc = "done"
    /\ old_python
    /\ Len(index_bases) = 4
    /\ Len(fetchLog) = 4 + 4 + 4 + 4
    /\ Len(installLog) = 1

\* C14: the workspace is deleted at most once, by a handler of main and by
\* nothing else; the deletion removes the directory mkdtemp made, comes
\* after the last fetch has ended and after the installer call, and nothing
\* is fetched, written or installed after it; a run that made the workspace
\* and did not end on a hash mismatch has deleted it exactly once when it
\* ends.
C14_DeletedOnceAtEnd ==
    [][ /\ Len(rmtreeLog') <= 1
        /\ rmtreeLog' # rmtreeLog =>
              /\ pc \in {"main_except", "main_else"}
              /\ rmtreeLog' = <<temp>>
              /\ temp # << >>
              /\ temp_exists /\ ~temp_exists'
              /\ \A i \in 1..Len(fetchLog) : fetchLog[i].outcome # "open"
              /\ UNCHANGED <<fetchLog, installLog>>
        /\ rmtreeLog # << >> =>
              UNCHANGED <<rmtreeLog, fetchLog, installLog, files, temp_exists>>
        /\ (pc' = "done" /\ temp' # << >> /\ ~MismatchEnded') =>
              (Len(rmtreeLog') = 1 /\ ~temp_exists')
      ]_vars

\* C14 witness: the workspace was deleted once, after the installer failed
\* on the downloads of the second base.
C14_Witness ==
    /\ pc = "done"
    /\ Len(rmtreeLog) = 1
    /\ InstallerFailed
    /\ base_i = 2
    /\ ~temp_exists

\* The last fetch of the log.
LastFetch == fetchLog[Len(fetchLog)]

\* C15: while a body is read, the bytes written to the file are the bytes
\* fed to the hash, and with the bytes not read yet they make up the body
\* the server sends: nothing skipped, duplicated or reordered. The digests
\* are compared only once the stream has ended. The path is returned
\* exactly when the digest of the whole file equals the pinned digest:
\* after a verified fetch the path is the last of the list and the file
\* hashes to the pinned digest, after a HashError it is not in the list and
\* the file hashes to something else.
C15_HashOfWhatIsWritten ==
    /\ pc \in {"read", "verify"} =>
          /\ files[path].content = actual_hash
          /\ actual_hash \o response = LastFetch.body
    /\ pc = "verify" =>
          /\ response = << >>
          /\ files[path].content = LastFetch.body
    /\ (fetchLog # << >> /\ path \in DOMAIN files) =>
          /\ LastFetch.outcome = "verified" =>
                /\ acc # << >> /\ acc[Len(acc)] = path
                /\ files[path].content = LastFetch.body
                /\ hexdigest(files[path].content) = Manifest[LastFetch.pkg].digest
          /\ LastFetch.outcome = "HashError" =>
                /\ \A i \in 1..Len(acc) : acc[i] # path
                /\ files[path].content = LastFetch.body
                /\ hexdigest(files[path].content) # Manifest[LastFetch.pkg].digest

\* C15 witness: a body of two different bytes was read to its end and the
\* digests are about to be compared.
C15_Witness ==
    /\ pc = "verify"
    /\ Len(actual_hash) = 2
    /\ actual_hash[1] # actual_hash[2]
    /\ files[path].content = actual_hash

\* C16: a HashError carries the URL that was fetched, the path of the
\* file, the digest of the bytes in the file and the pinned digest, the two
\* digests being different; the file is on disk at that path, still when
\* the run has ended, and the diagnostic printed then holds the URL, the
\* pinned digest, the actual digest and the path.
C16_MismatchEvidence ==
    exc.type = "HashError" =>
        LET b == exc.at[1]
            j == exc.at[2]
            p == ExpectedPath(j)
        IN  /\ exc.args[1] = index_bases[b] \o <<"/", "packages", "/">> \o Manifest[j].path
            /\ exc.args[2] = p
            /\ exc.args[4] = Manifest[j].digest
            /\ exc.args[3] # exc.args[4]
            /\ temp_exists
            /\ p \in DOMAIN files
            /\ exc.args[3] = hexdigest(files[p].content)
            /\ pc = "done" =>
                  /\ ret = "return 1"
                  /\ Len(stdout) = 1
                  /\ stdout[1][1] = exc.args[1]
                  /\ stdout[1][3] = Manifest[j].digest
                  /\ stdout[1][5] = hexdigest(files[p].content)
                  /\ stdout[1][7] = p

\* C16 witness: the run has ended on a mismatch of the second entry of the
\* third base, whose file holds bytes that are no pinned archive.
C16_Witness ==
    /\ pc = "done"
    /\ exc.type = "HashError"
    /\ exc.at = <<3, 2>>
    /\ exc.args[3] = ToString(files[path].content)

\* C17: the URL of a fetch is {base}/packages/{relative_path} with base
\* the base of the mirror list the fetch goes to and relative_path the path
\* of the manifest entry fetched, a path that does not begin with '/', so
\* that one '/' and no more stands between 'packages' and the first
\* segment of the path.
C17_OneSlashAfterPackages ==
    pc \in {"read", "verify"} =>
        LET base == index_bases[LastFetch.base]
            rel  == Manifest[LastFetch.pkg].path
        IN  /\ url = base \o <<"/", "packages", "/">> \o rel
            /\ rel[1] # "/"
            /\ url[Len(base) + 4] # "/"

\* C18: when the opener is returned for a URL whose scheme is https, its
\* handler list holds no HTTPHandler, wherever in the list build_opener had
\* put it and although the loop removes from the list it iterates over, and
\* the HTTPSHandler is still there; the loop from any position it can be at
\* ends with the same list as the loop run by steps; for a URL of another
\* scheme the HTTPHandler is kept.
Holds(hs, handler) == \E i \in 1..Len(hs) : hs[i] = handler

C18_HttpHandlerStripped ==
    /\ pc = "return_opener" /\ using_https(url) =>
           /\ ~Holds(handlers, "HTTPHandler")
           /\ Holds(handlers, "HTTPSHandler")
    /\ pc = "return_opener" /\ ~using_https(url) =>
           /\ Holds(handlers, "HTTPHandler")
           /\ handlers \in BuiltHandlers
    /\ pc = "for_handler" =>
           ~Holds(strip_loop(handlers, handler_i).handlers, "HTTPHandler")

\* an opener was returned for an https URL after the loop ran over a list
\* of eight handlers and removed the HTTPHandler from it
C18_Witness ==
    /\ pc = "return_opener"
    /\ using_https(url)
    /\ handlers # << >>
    /\ handlers[Len(handlers)] = "HTTPErrorProcessor"
    /\ handler_i = Len(handlers) + 1
    /\ Len(handlers) = 7

\* hashed_downloads has been called with the list get_index_bases returned.
HashedDownloadsCalled ==
    temp # << >> /\ pc \notin {"mkdtemp", "get_index_bases"}

\* hashed_downloads has ended with an error.
HashedDownloadsRaised ==
    /\ HashedDownloadsCalled
    /\ pc \in {"main_except", "done"}
    /\ exc.type \notin {"None", "CalledProcessError"}

C20_NoStaleFiles ==
    /\ pc = "install" =>
          /\ \A i \in 1..Len(downloads) :
                /\ downloads[i] \in DOMAIN files
                /\ LET f == files[downloads[i]].fetch
                   IN  /\ f \in 1..Len(fetchLog)
                       /\ fetchLog[f].base = base_i
                       /\ fetchLog[f].pkg = i
                       /\ files[downloads[i]].content = fetchLog[f].body
                       /\ \A g \in 1..Len(fetchLog) :
                              fetchLog[g].base < base_i => g < f
          /\ \A i, j \in 1..Len(downloads) :
                i # j => downloads[i] # downloads[j]
    /\ \A n \in 1..Len(installLog) :
          \A i \in 1..Len(installLog[n].paths) :
             installLog[n].contents[i] = LastPass(i).body

\* hashed_downloads has returned from the second base, after the pass over
\* the first base wrote and verified three files and failed on the fourth
C20_Witness ==
    /\ pc = "install"
    /\ base_i = 2
    /\ \E g \in 1..Len(fetchLog) :
          /\ fetchLog[g].base = 1
          /\ fetchLog[g].pkg = 3
          /\ fetchLog[g].outcome = "verified"
          /\ downloads[3] \in DOMAIN files
          /\ files[downloads[3]].fetch # g

====
